---- MODULE Spec2Model ----
(***************************************************************************)
(* Model of automotive-bcm/tools/can_simulator.py: the CanInterface        *)
(* wrapper (connect / disconnect / send / start_receive and the background *)
(* receive loop), the BcmSimulator built on it (start / stop, the inbound  *)
(* handler and the command senders), run_interactive, run_demo and main.   *)
(*                                                                         *)
(* Four specifications share the state:                                    *)
(*   Spec      the program as main() runs it (one main thread, the daemon  *)
(*             receive thread, the operator's commands, the bus traffic);  *)
(*   SpecApi   one CanInterface driven by an arbitrary client that calls   *)
(*             connect, start_receive, send and disconnect in any order;   *)
(*   SpecLife  one session (connect, start_receive once, sends, any number *)
(*             of disconnects) with weak fairness on the receive thread;   *)
(*   SpecRoute the inbound handler applied to every id and payload.        *)
(***************************************************************************)
EXTENDS Integers, Sequences, FiniteSets, TLC

\* ------------------------------------------------------------------ bounds
MaxFrames == 2      \* frames the bus delivers to recv
MaxCalls == 4       \* calls the client of SpecApi makes
MaxThreads == 2     \* Thread objects start_receive may create
MaxBuses == 2       \* can.Bus objects connect may create
MaxCmds == 2        \* commands the operator types in run_interactive

\* ------------------------------------------------------- program constants
BCM_STATUS == 512           \* 0x200
DOOR_STATUS == 528          \* 0x210
BCM_HEARTBEAT == 592        \* 0x250
DOOR_CMD == 768             \* 0x300
LIGHTING_CMD == 784         \* 0x310
TURN_SIGNAL_CMD == 800      \* 0x320
IGNITION_STATUS == 256      \* 0x100
VEHICLE_SPEED == 272        \* 0x110
ENGINE_STATUS == 288        \* 0x120
KEYFOB_CMD == 304           \* 0x130
UNLOCK_ALL == 2
LOCK_SINGLE == 3
HEADLIGHTS_ON == 1
LEFT_ON == 1
LEFT_OFF == 2
IGN_OFF == 0
IGN_ACC == 1
IGN_ON == 2
KEY_LOCK == 1
KEY_UNLOCK == 2
MaxPayload == 8             \* a CAN frame carries 0..8 data bytes
MaxId == 2047               \* 11-bit arbitration id

None == 0                   \* Python's None for self.bus and self.rx_thread

Threads == 1..MaxThreads
Buses == 1..MaxBuses

VARIABLES
  canAvailable,   \* CAN_AVAILABLE: python-can was imported
  mode,           \* args.mode: "demo" or "interactive" ("api": no main())
  bus,            \* CanInterface.bus: None or a can.Bus object
  nbus,           \* can.Bus objects created so far
  busState,       \* per can.Bus object: "unborn", "open" or "shut"
  shutdowns,      \* per can.Bus object: calls of shutdown() on it
  running,        \* CanInterface.running, the stop flag
  rx_callback,    \* CanInterface.rx_callback is set
  rx_thread,      \* CanInterface.rx_thread: None or the last Thread
  nthreads,       \* Thread objects created so far
  rxpc,           \* per Thread: position in _receive_loop
  rxmsg,          \* per Thread: the frame it got from recv
  taken,          \* frames recv has returned so far
  delivered,      \* callback invocations: <<frame, thread, raised>>
  mpc,            \* position of the main (client) thread
  dret,           \* where disconnect returns to
  cur,            \* the CanInterface call in progress
  prev,           \* the last completed CanInterface call
  calls,          \* calls made by the client of SpecApi
  connRet,        \* what the last connect() returned
  lastSend,       \* the last send(): bus seen, attempts made, result, exception
  sent,           \* frames passed to CanInterface.send, in order
  wire,           \* frames passed to can.Bus.send, in order
  demoIdx,        \* run_demo: steps executed by the current run
  demoStart,      \* run_demo: Len(sent) and Len(wire) when the run began
  demoRet,        \* run_demo: where it returns to
  demoRuns,       \* run_demo: completed runs
  ncmds,          \* run_interactive: commands read so far
  exitCode,       \* process exit status (-1: still running)
  joinTimedOut,   \* the last join(timeout=1.0) returned with the thread alive
  exc,            \* an exception escaped a CanInterface method
  rid,            \* SpecRoute: arbitration id handed to the handler
  rdata,          \* SpecRoute: payload handed to the handler
  rres            \* SpecRoute: <<>>, then <<what the handler did>>

ifvars == <<bus, nbus, busState, shutdowns, running, rx_callback, rx_thread, nthreads>>
rxvars == <<rxpc, rxmsg, taken, delivered>>
mainvars == <<mpc, dret, cur, prev, calls, connRet, joinTimedOut, exc, exitCode>>
sendvars == <<lastSend, sent, wire>>
demovars == <<demoIdx, demoStart, demoRet, demoRuns, ncmds>>
routevars == <<rid, rdata, rres>>
cfgvars == <<canAvailable, mode>>
vars == <<cfgvars, ifvars, rxvars, mainvars, sendvars, demovars, routevars>>

Live == {"top", "chkbus", "recv", "cb"}

\* A CanMessage: arbitration id and data bytes.
CanMessage(id, data) == [id |-> id, data |-> data]

NoSend == [busNone |-> FALSE, attempts |-> 0, ok |-> FALSE, ret |-> "none", raised |-> FALSE]

\* -------------------------------------------------------------------- Init
\* CanInterface.__init__ and BcmSimulator.__init__
InitObjects ==
  /\ bus = None /\ nbus = 0
  /\ busState = [b \in Buses |-> "unborn"]
  /\ shutdowns = [b \in Buses |-> 0]
  /\ running = FALSE /\ rx_callback = FALSE /\ rx_thread = None /\ nthreads = 0
  /\ rxpc = [t \in Threads |-> "unborn"]
  /\ rxmsg = [t \in Threads |-> 0]
  /\ taken = 0 /\ delivered = <<>>
  /\ dret = "none" /\ cur = "none" /\ prev = "none" /\ calls = 0
  /\ connRet = "none" /\ joinTimedOut = FALSE /\ exc = FALSE /\ exitCode = -1
  /\ lastSend = NoSend /\ sent = <<>> /\ wire = <<>>
  /\ demoIdx = 0 /\ demoStart = [s |-> 0, w |-> 0] /\ demoRet = "none" /\ demoRuns = 0 /\ ncmds = 0

NoRoute == rid = 0 /\ rdata = <<>> /\ rres = <<>>

\* main(): the import succeeded or not, and the mode the operator chose
Init ==
  /\ canAvailable \in BOOLEAN
  /\ mode \in {"demo", "interactive"}
  /\ InitObjects /\ NoRoute
  /\ mpc = "m_connect"

InitApi ==
  /\ canAvailable \in BOOLEAN
  /\ mode = "api"
  /\ InitObjects /\ NoRoute
  /\ mpc = "idle"

\* ----------------------------------------------------------- receive loop
\* except Exception: pass  -- inside the while: the loop tests its condition again
RxAfterErrorBreaks == "done"
RxAfterError == "top"

\* while self.running ...
RxTopNoFlag(t) ==
  /\ rxpc[t] = "top"
  /\ rxpc' = [rxpc EXCEPT ![t] = "chkbus"]
  /\ UNCHANGED <<cfgvars, ifvars, rxmsg, taken, delivered, mainvars, sendvars, demovars, routevars>>
RxTop(t) ==
  /\ rxpc[t] = "top"
  /\ rxpc' = [rxpc EXCEPT ![t] = IF running THEN "chkbus" ELSE "done"]
  /\ UNCHANGED <<cfgvars, ifvars, rxmsg, taken, delivered, mainvars, sendvars, demovars, routevars>>

\* ... and self.bus:
RxChkBus(t) ==
  /\ rxpc[t] = "chkbus"
  /\ rxpc' = [rxpc EXCEPT ![t] = IF bus # None THEN "recv" ELSE "done"]
  /\ UNCHANGED <<cfgvars, ifvars, rxmsg, taken, delivered, mainvars, sendvars, demovars, routevars>>

\* msg = self.bus.recv(timeout=0.1); if msg and self.rx_callback: ...
\* On None (released meanwhile) the attribute access raises; on a bus that was
\* shut down recv raises or times out; on an open bus it times out, raises, or
\* returns the next frame.
RxRecv(t) ==
  /\ rxpc[t] = "recv"
  /\ \/ /\ bus = None
        /\ rxpc' = [rxpc EXCEPT ![t] = RxAfterError]
        /\ UNCHANGED <<rxmsg, taken>>
     \/ /\ bus # None
        /\ \E raised \in BOOLEAN :
             rxpc' = [rxpc EXCEPT ![t] = IF raised THEN RxAfterError ELSE "top"]
        /\ UNCHANGED <<rxmsg, taken>>
     \/ /\ bus # None /\ busState[bus] = "open" /\ taken < MaxFrames
        /\ taken' = taken + 1
        /\ IF rx_callback
             THEN /\ rxpc' = [rxpc EXCEPT ![t] = "cb"]
                  /\ rxmsg' = [rxmsg EXCEPT ![t] = taken + 1]
             ELSE /\ rxpc' = [rxpc EXCEPT ![t] = "top"]
                  /\ UNCHANGED rxmsg
  /\ UNCHANGED <<cfgvars, ifvars, delivered, mainvars, sendvars, demovars, routevars>>

\* self.rx_callback(can_msg): the callback returns or raises
RxCallback(t) ==
  /\ rxpc[t] = "cb"
  /\ \E raised \in BOOLEAN :
       /\ delivered' = Append(delivered, <<rxmsg[t], t, raised>>)
       /\ rxpc' = [rxpc EXCEPT ![t] = IF raised THEN RxAfterError ELSE "top"]
  /\ UNCHANGED <<cfgvars, ifvars, rxmsg, taken, mainvars, sendvars, demovars, routevars>>

RxStep(t) == RxTop(t) \/ RxChkBus(t) \/ RxRecv(t) \/ RxCallback(t)

\* ---------------------------------------------------------- CanInterface
\* Bookkeeping of a call that runs in one step: it is the last completed call.
Completed(name) == prev' = name /\ cur' = "none"

\* CanInterface.connect, called at `at` and returning to `to`
Connect(at, to) ==
  /\ mpc = at
  /\ \/ /\ ~canAvailable                       \* [SIM] Would connect
        /\ connRet' = "ok"
        /\ UNCHANGED <<bus, nbus, busState>>
     \/ /\ canAvailable /\ nbus < MaxBuses     \* can.Bus(...) succeeds
        /\ nbus' = nbus + 1
        /\ bus' = nbus + 1
        /\ busState' = [busState EXCEPT ![nbus + 1] = "open"]
        /\ connRet' = "ok"
     \/ /\ canAvailable                        \* can.Bus(...) raises
        /\ connRet' = "fail"
        /\ UNCHANGED <<bus, nbus, busState>>
  /\ mpc' = to
  /\ Completed("connect")
  /\ UNCHANGED <<cfgvars, shutdowns, running, rx_callback, rx_thread, nthreads, rxvars,
                 dret, joinTimedOut, exc, exitCode, sendvars, demovars, routevars>>

\* CanInterface.start_receive: a new daemon Thread on _receive_loop, every call
StartReceive(at, to) ==
  /\ mpc = at
  /\ nthreads < MaxThreads
  /\ rx_callback' = TRUE
  /\ running' = TRUE
  /\ nthreads' = nthreads + 1
  /\ rx_thread' = nthreads + 1
  /\ rxpc' = [rxpc EXCEPT ![nthreads + 1] = "top"]
  /\ mpc' = to
  /\ Completed("start_receive")
  /\ UNCHANGED <<cfgvars, bus, nbus, busState, shutdowns, rxmsg, taken, delivered,
                 dret, connRet, joinTimedOut, exc, exitCode, sendvars, demovars,
                 routevars>>

\* CanInterface.disconnect, first statement: self.running = False
DCallNoJoin(at, to) ==
  /\ mpc = at
  /\ running' = FALSE
  /\ mpc' = "d_shut"
  /\ dret' = to
  /\ cur' = "disconnect"
  /\ UNCHANGED <<cfgvars, bus, nbus, busState, shutdowns, rx_callback, rx_thread, nthreads,
                 rxvars, prev, connRet, joinTimedOut, exc, exitCode, sendvars,
                 demovars, routevars>>
DCall(at, to) ==
  /\ mpc = at
  /\ running' = FALSE
  /\ mpc' = IF rx_thread # None THEN "d_join" ELSE "d_shut"
  /\ dret' = to
  /\ cur' = "disconnect"
  /\ UNCHANGED <<cfgvars, bus, nbus, busState, shutdowns, rx_callback, rx_thread, nthreads,
                 rxvars, prev, connRet, joinTimedOut, exc, exitCode, sendvars,
                 demovars, routevars>>

\* self.rx_thread.join(timeout=1.0): returns when the thread has ended, or after
\* a second with the thread still alive; on a Thread that was never started
\* join raises RuntimeError, which disconnect does not catch
DJoin ==
  /\ mpc = "d_join"
  /\ joinTimedOut' = (rxpc[rx_thread] \in Live)
  /\ exc' = (exc \/ rxpc[rx_thread] = "unborn")
  /\ mpc' = "d_shut"
  /\ UNCHANGED <<cfgvars, ifvars, rxvars, dret, cur, prev, calls, connRet, exitCode,
                 sendvars, demovars, routevars>>

\* if self.bus: self.bus.shutdown()
DShut ==
  /\ mpc = "d_shut"
  /\ IF bus # None
       THEN /\ busState' = [busState EXCEPT ![bus] = "shut"]
            /\ shutdowns' = [shutdowns EXCEPT ![bus] = @ + 1]
            /\ mpc' = "d_none"
            /\ UNCHANGED <<cur, prev>>
       ELSE /\ mpc' = dret
            /\ Completed("disconnect")
            /\ UNCHANGED <<busState, shutdowns>>
  /\ UNCHANGED <<cfgvars, bus, nbus, running, rx_callback, rx_thread, nthreads, rxvars,
                 dret, calls, connRet, joinTimedOut, exc, exitCode, sendvars, demovars,
                 routevars>>

\* self.bus = None
DNoneKeepsBus ==
  /\ mpc = "d_none"
  /\ mpc' = dret
  /\ Completed("disconnect")
  /\ UNCHANGED <<cfgvars, ifvars, rxvars, dret, calls, connRet, joinTimedOut, exc,
                 exitCode, sendvars, demovars, routevars>>
DNone ==
  /\ mpc = "d_none"
  /\ bus' = None
  /\ mpc' = dret
  /\ Completed("disconnect")
  /\ UNCHANGED <<cfgvars, nbus, busState, shutdowns, running, rx_callback, rx_thread,
                 nthreads, rxvars, dret, calls, connRet, joinTimedOut, exc, exitCode,
                 sendvars, demovars, routevars>>

\* CanInterface.send: what one call does, given CAN_AVAILABLE, self.bus and
\* whether can.Bus.send succeeds: the attempts it makes, what it returns, and
\* whether an exception leaves it (the try/except turns a failed attempt into
\* a False result)
SendOutcomeRetries(avail, b, ok) ==
  IF ~avail THEN [busNone |-> b = None, attempts |-> 0, ok |-> FALSE, ret |-> "true", raised |-> FALSE]
  ELSE IF b = None THEN [busNone |-> TRUE, attempts |-> 0, ok |-> FALSE, ret |-> "false", raised |-> FALSE]
  ELSE IF ok THEN [busNone |-> FALSE, attempts |-> 1, ok |-> TRUE, ret |-> "true", raised |-> FALSE]
  ELSE [busNone |-> FALSE, attempts |-> 2, ok |-> FALSE, ret |-> "false", raised |-> FALSE]
SendOutcome(avail, b, ok) ==
  IF ~avail THEN [busNone |-> b = None, attempts |-> 0, ok |-> FALSE, ret |-> "true", raised |-> FALSE]
  ELSE IF b = None THEN [busNone |-> TRUE, attempts |-> 0, ok |-> FALSE, ret |-> "false", raised |-> FALSE]
  ELSE [busNone |-> FALSE, attempts |-> 1, ok |-> ok, ret |-> IF ok THEN "true" ELSE "false",
        raised |-> FALSE]

RECURSIVE Repeat(_, _)
Repeat(x, n) == IF n = 0 THEN <<>> ELSE <<x>> \o Repeat(x, n - 1)

\* The effect of self.can.send(msg) on the logs
SendEffect(msg) ==
  \E ok \in BOOLEAN :
    /\ (ok => bus # None /\ busState[bus] = "open")
    /\ lastSend' = SendOutcome(canAvailable, bus, ok)
    /\ sent' = Append(sent, msg)
    /\ wire' = wire \o Repeat(msg, lastSend'.attempts)

Send(at, to, msg) ==
  /\ mpc = at
  /\ SendEffect(msg)
  /\ mpc' = to
  /\ Completed("send")
  /\ UNCHANGED <<cfgvars, ifvars, rxvars, dret, connRet, joinTimedOut, exc,
                 exitCode, demovars, routevars>>

\* ----------------------------------------------------------- BcmSimulator
\* struct.pack('>H', v): two bytes, big-endian
PackH(v) == <<v \div 256, v % 256>>

\* The command senders: the CanMessage each one builds
IgnitionMsg(state) == CanMessage(IGNITION_STATUS, <<state>>)
VehicleSpeedMsg(kmh) == CanMessage(VEHICLE_SPEED, PackH(kmh))
EngineStatusMsg(on) == CanMessage(ENGINE_STATUS, <<IF on THEN 1 ELSE 0>>)
KeyfobMsg(cmd) == CanMessage(KEYFOB_CMD, <<cmd>>)
DoorCommandMsg(cmd, door, extra) == CanMessage(DOOR_CMD, <<cmd, door, extra>>)
LightingCommandMsg(cmd, param) == CanMessage(LIGHTING_CMD, <<cmd, param>>)
TurnSignalCommandMsg(cmd) == CanMessage(TURN_SIGNAL_CMD, <<cmd>>)

\* run_demo: the authored steps
DemoSteps ==
  << IgnitionMsg(IGN_ACC), KeyfobMsg(KEY_UNLOCK), IgnitionMsg(IGN_ON),
     EngineStatusMsg(TRUE), VehicleSpeedMsg(20), LightingCommandMsg(HEADLIGHTS_ON, 0),
     TurnSignalCommandMsg(LEFT_ON), TurnSignalCommandMsg(LEFT_OFF), VehicleSpeedMsg(0),
     EngineStatusMsg(FALSE), IgnitionMsg(IGN_OFF), KeyfobMsg(KEY_LOCK) >>

\* for desc, action in steps: the action of the i-th iteration
DemoActionRepeatsFirst(i) == DemoSteps[1]
DemoAction(i) == DemoSteps[i]

\* run_interactive: the command lines modelled, and the frame each one sends
\* ("help" sends none; "demo" and "quit" are handled by the loop itself)
SendingCmds == {"door unlock", "door lock 1", "head on", "turn left"}
CmdMsg(c) ==
  CASE c = "door unlock" -> DoorCommandMsg(UNLOCK_ALL, 0, 0)
    [] c = "door lock 1" -> DoorCommandMsg(LOCK_SINGLE, 1, 0)
    [] c = "head on"     -> LightingCommandMsg(HEADLIGHTS_ON, 0)
    [] c = "turn left"   -> TurnSignalCommandMsg(LEFT_ON)

\* ------------------------------------------------------------------ main()
\* BcmSimulator.start: self.can.connect() -- the result is dropped
MConnect == Connect("m_connect", "m_startrx") /\ UNCHANGED calls

\* BcmSimulator.start: self.can.start_receive(self._on_message_received)
MStartRx == StartReceive("m_startrx", "m_mode") /\ UNCHANGED calls

\* run_demo is entered: from main (demo mode) or from the "demo" command
DemoEnter(ret) ==
  /\ demoIdx' = 0
  /\ demoStart' = [s |-> Len(sent), w |-> Len(wire)]
  /\ demoRet' = ret
  /\ mpc' = "demo"

\* if args.mode == 'demo': run_demo(sim) else: run_interactive(sim)
MMode ==
  /\ mpc = "m_mode"
  /\ IF mode = "demo"
       THEN DemoEnter("stop") /\ UNCHANGED <<demoRuns, ncmds>>
       ELSE mpc' = "interactive" /\ UNCHANGED demovars
  /\ UNCHANGED <<cfgvars, ifvars, rxvars, dret, cur, prev, calls, connRet, joinTimedOut,
                 exc, exitCode, sendvars, routevars>>

\* run_demo: one iteration of the loop: action(); time.sleep(1.0)
DemoStep ==
  /\ mpc = "demo"
  /\ demoIdx < Len(DemoSteps)
  /\ SendEffect(DemoAction(demoIdx + 1))
  /\ demoIdx' = demoIdx + 1
  /\ Completed("send")
  /\ UNCHANGED <<cfgvars, ifvars, rxvars, mpc, dret, calls, connRet, joinTimedOut, exc,
                 exitCode, demoStart, demoRet, demoRuns, ncmds, routevars>>

\* run_demo: the loop is over: "Demo Complete"
DemoDone ==
  /\ mpc = "demo"
  /\ demoIdx = Len(DemoSteps)
  /\ demoRuns' = demoRuns + 1
  /\ mpc' = demoRet
  /\ UNCHANGED <<cfgvars, ifvars, rxvars, dret, cur, prev, calls, connRet, joinTimedOut,
                 exc, exitCode, sendvars, demoIdx, demoStart, demoRet, ncmds, routevars>>

\* run_interactive: a command line that sends one frame
UserSend ==
  /\ mpc = "interactive"
  /\ ncmds < MaxCmds
  /\ \E c \in SendingCmds : SendEffect(CmdMsg(c))
  /\ ncmds' = ncmds + 1
  /\ Completed("send")
  /\ UNCHANGED <<cfgvars, ifvars, rxvars, mpc, dret, calls, connRet, joinTimedOut, exc,
                 exitCode, demoIdx, demoStart, demoRet, demoRuns, routevars>>

\* run_interactive: "help", an empty or an unknown line
UserHelp ==
  /\ mpc = "interactive"
  /\ ncmds < MaxCmds
  /\ ncmds' = ncmds + 1
  /\ UNCHANGED <<cfgvars, ifvars, rxvars, mainvars, sendvars, demoIdx, demoStart, demoRet,
                 demoRuns, routevars>>

\* run_interactive: "demo"
UserDemo ==
  /\ mpc = "interactive"
  /\ ncmds < MaxCmds
  /\ ncmds' = ncmds + 1
  /\ DemoEnter("interactive")
  /\ UNCHANGED <<cfgvars, ifvars, rxvars, dret, cur, prev, calls, connRet, joinTimedOut,
                 exc, exitCode, sendvars, demoRuns, routevars>>

\* run_interactive: "quit"; or Ctrl-C at the prompt or during the demo
UserQuit ==
  /\ mpc \in {"interactive", "demo"}
  /\ mpc' = "stop"
  /\ UNCHANGED <<cfgvars, ifvars, rxvars, dret, cur, prev, calls, connRet, joinTimedOut,
                 exc, exitCode, sendvars, demovars, routevars>>

\* finally: sim.stop() -> self.can.disconnect()
MStop == DCall("stop", "exit") /\ UNCHANGED calls

\* print("Goodbye!"); main returns: the process ends with status 0 and its
\* daemon thread ends with it
MExit ==
  /\ mpc = "exit"
  /\ exitCode' = 0
  /\ mpc' = "exited"
  /\ rxpc' = [t \in Threads |-> IF rxpc[t] \in Live THEN "killed" ELSE rxpc[t]]
  /\ UNCHANGED <<cfgvars, ifvars, rxmsg, taken, delivered, dret, cur, prev, calls, connRet,
                 joinTimedOut, exc, sendvars, demovars, routevars>>

\* --------------------------------------------------- a client of the class
ApiConnect ==
  /\ calls < MaxCalls
  /\ Connect("idle", "idle")
  /\ calls' = calls + 1
ApiStartReceive ==
  /\ calls < MaxCalls
  /\ StartReceive("idle", "idle")
  /\ calls' = calls + 1
ApiSend ==
  /\ calls < MaxCalls
  /\ Send("idle", "idle", IgnitionMsg(IGN_ON))
  /\ calls' = calls + 1
ApiDisconnect ==
  /\ calls < MaxCalls
  /\ DCall("idle", "idle")
  /\ calls' = calls + 1

\* ------------------------------------------------------- the inbound handler
\* data[i] on a bytes object: a byte, or IndexError past the end
IndexError == -1
Idx(data, i) == IF i < Len(data) THEN data[i + 1] ELSE IndexError

Raises(fields) == \E k \in DOMAIN fields : fields[k] = IndexError

\* What a handler did: raised, or returned after printing these values
Raised == [raised |-> TRUE, printed |-> <<>>]
Printed(values) == [raised |-> FALSE, printed |-> values]

\* BcmSimulator._parse_bcm_status
ParseBcmStatusUnguarded(data) ==
  LET f == [k \in 0..6 |-> Idx(data, k)]
  IN  IF Raises(f) THEN Raised ELSE Printed(<<f[0], f[1], f[5] * 256 + f[6]>>)
ParseBcmStatus(data) ==
  IF Len(data) >= 8
    THEN LET f == [k \in 0..6 |-> Idx(data, k)]
         IN  IF Raises(f) THEN Raised ELSE Printed(<<f[0], f[1], f[5] * 256 + f[6]>>)
    ELSE Printed(<<>>)

\* BcmSimulator._parse_heartbeat.  The 32-bit uptime is kept as its two 16-bit
\* halves <<high, low>> (uptime = high * 65536 + low): Python's integers are
\* unbounded and the value does not fit the checker's signed 32-bit integers.
ParseHeartbeat(data) ==
  IF Len(data) >= 6
    THEN LET f == [k \in 0..5 |-> Idx(data, k)]
         IN  IF Raises(f) THEN Raised
             ELSE Printed(<<f[0], f[1] * 256 + f[2], f[3] * 256 + f[4], f[5]>>)
    ELSE Printed(<<>>)

\* BcmSimulator._on_message_received: prints the frame, then dispatches on the id
OnMessageReceived(id, data) ==
  IF id = BCM_STATUS THEN ParseBcmStatus(data)
  ELSE IF id = BCM_HEARTBEAT THEN ParseHeartbeat(data)
  ELSE Printed(<<>>)

\* Inputs of SpecRoute: ids in and out of the handled families, at the ends of
\* the 11-bit range; every payload of 0..8 bytes over two byte values
RouteIds == {0, BCM_STATUS, DOOR_STATUS, BCM_HEARTBEAT, DOOR_CMD, MaxId}
ByteVals == {0, 255}
Payloads == UNION {[1..n -> ByteVals] : n \in 0..MaxPayload}

InitRoute ==
  /\ canAvailable = TRUE /\ mode = "route"
  /\ InitObjects
  /\ mpc = "route"
  /\ rid \in RouteIds /\ rdata \in Payloads /\ rres = <<>>

Route ==
  /\ mpc = "route" /\ rres = <<>>
  /\ rres' = <<OnMessageReceived(rid, rdata)>>
  /\ UNCHANGED <<cfgvars, ifvars, rxvars, mainvars, sendvars, demovars, rid, rdata>>

\* ---------------------------------------------------------- specifications
Rx == \E t \in Threads : RxStep(t)

Next ==
  \/ MConnect \/ MStartRx \/ MMode
  \/ DemoStep \/ DemoDone
  \/ UserSend \/ UserHelp \/ UserDemo \/ UserQuit
  \/ MStop \/ DJoin \/ DShut \/ DNone \/ MExit
  \/ Rx

Spec == Init /\ [][Next]_vars

NextApi ==
  \/ ApiConnect \/ ApiStartReceive \/ ApiSend \/ ApiDisconnect
  \/ DJoin \/ DShut \/ DNone
  \/ Rx

SpecApi == InitApi /\ [][NextApi]_vars

\* One session: start_receive is called once, on a fresh CanInterface
LifeStartReceive == rx_thread = None /\ ApiStartReceive

NextLife ==
  \/ ApiConnect \/ LifeStartReceive \/ ApiSend \/ ApiDisconnect
  \/ DJoin \/ DShut \/ DNone
  \/ Rx

\* The receive thread is scheduled: recv returns within its timeout and the
\* callback returns, so a step of the loop that can be taken is taken.
SpecLife == InitApi /\ [][NextLife]_vars /\ \A t \in Threads : WF_vars(RxStep(t))

NextRoute == Route

SpecRoute == InitRoute /\ [][NextRoute]_vars

\* ------------------------------------------------------------------ claims
\* C1: cooperative cancellation.  In a session, whenever disconnect() has
\* cleared the stop flag while a receive loop is running, that loop eventually
\* exits, in every interleaving of the loop with disconnect, given that the
\* receive thread keeps being scheduled.
C1_LoopExitsAfterDisconnect ==
  \A t \in Threads : (rxpc[t] \in Live /\ ~running) ~> (rxpc[t] = "done")

\* disconnect() is past a join that timed out with the loop alive, the transport
\* is still open, and the loop has ended on the stop flag
C1_Witness ==
  /\ mpc = "d_shut" /\ cur = "disconnect" /\ joinTimedOut
  /\ bus # None /\ busState[bus] = "open"
  /\ rx_thread # None /\ rxpc[rx_thread] = "done"

\* Every frame recv has returned so far has been handed to the callback, or is
\* held by a thread about to hand it over (or killed, holding it, by the exit
\* of the process).
C2_EveryFrameDelivered ==
  \A n \in 1..taken :
    \/ \E i \in 1..Len(delivered) : delivered[i][1] = n
    \/ \E t \in Threads : rxpc[t] \in {"cb", "killed"} /\ rxmsg[t] = n

\* A step that ends a receive loop is taken with the stop flag cleared or the
\* transport released.
C2_ExitOnlyWhenStopped ==
  \A t \in Threads :
    (rxpc[t] \in Live /\ rxpc'[t] = "done") => (~running \/ bus = None)

\* C2: error containment.  A receive loop ends only at its own test, with the
\* stop flag cleared or the transport released: an error raised by the callback
\* or by the poll never ends it, and the loop goes on to hand every frame recv
\* returns to the callback.
C2_ErrorContained == [](C2_EveryFrameDelivered) /\ [][C2_ExitOnlyWhenStopped]_vars

\* the callback raised on one frame and the same loop delivered the next one
C2_Witness ==
  \E i, j \in 1..Len(delivered) :
    /\ i < j
    /\ delivered[i][3] /\ delivered[i][2] = delivered[j][2]
    /\ delivered[i][1] < delivered[j][1]

\* No exception has escaped, no can.Bus object was shut down twice, and a
\* disconnect() that has returned left running = False and bus = None.
C3_AfterDisconnect ==
  /\ exc = FALSE
  /\ \A b \in Buses : shutdowns[b] <= 1
  /\ (prev = "disconnect" /\ cur = "none") => (running = FALSE /\ bus = None)

\* The steps of a disconnect() that follows a disconnect() change nothing.
C3_SecondChangesNothing ==
  (prev = "disconnect" /\ (cur = "disconnect" \/ cur' = "disconnect"))
     => UNCHANGED <<bus, busState, shutdowns, running, rx_thread, rx_callback>>

\* C3: disconnect() is idempotent and safe in every state.  No exception
\* escapes, no transport is shut down twice, disconnect() leaves
\* running = False and bus = None (also when nothing was ever connected), and
\* a disconnect() that follows a disconnect() changes nothing.
C3_DisconnectIdempotent == [](C3_AfterDisconnect) /\ [][C3_SecondChangesNothing]_vars

\* a second disconnect() in a row, on an interface whose transport the first
\* one shut down, is past its join
C3_Witness ==
  /\ prev = "disconnect" /\ cur = "disconnect" /\ mpc = "d_shut"
  /\ nbus >= 1 /\ shutdowns[1] = 1 /\ bus = None

\* C4 (as claimed): send makes at most one transmit attempt, returns false when
\* bus is None or the transport's send fails, and true only when the single
\* attempt succeeded.
C4_SendAsClaimed ==
  lastSend.ret # "none" =>
    /\ ~lastSend.raised
    /\ lastSend.attempts <= 1
    /\ (lastSend.busNone => lastSend.ret = "false")
    /\ (lastSend.ret = "true" <=> (lastSend.attempts = 1 /\ lastSend.ok))

\* C4 (amended): send never throws and never retries.  With python-can
\* available it makes no attempt and returns false when bus is None, and
\* otherwise makes exactly one attempt and returns true exactly when that
\* attempt succeeded; in simulation mode (CAN_AVAILABLE false) it makes no
\* attempt on any transport and returns true.
C4_SendOnce ==
  lastSend.ret # "none" =>
    /\ ~lastSend.raised
    /\ lastSend.attempts <= 1
    /\ IF canAvailable
         THEN /\ lastSend.busNone => (lastSend.ret = "false" /\ lastSend.attempts = 0)
              /\ ~lastSend.busNone => lastSend.attempts = 1
              /\ lastSend.ret = "true" <=> (lastSend.attempts = 1 /\ lastSend.ok)
         ELSE lastSend.attempts = 0 /\ lastSend.ret = "true"

\* a send on a connected transport whose single attempt failed
C4_Witness ==
  /\ canAvailable /\ prev = "send"
  /\ ~lastSend.busNone /\ lastSend.attempts = 1 /\ lastSend.ret = "false"
  /\ Len(wire) >= 2

\* C5: failure of the initial connect is fatal.  Once connect() has returned
\* false no demo or interactive send path runs, no frame is passed to send,
\* and the process ends with a non-zero status.
C5_ConnectFailureFatal ==
  connRet = "fail" =>
    /\ mpc \notin {"demo", "interactive"}
    /\ sent = <<>>
    /\ (mpc = "exited" => exitCode # 0)

\* Bitwise exclusive or of two naturals
RECURSIVE Xor(_, _)
Xor(a, b) ==
  IF a = 0 THEN b
  ELSE IF b = 0 THEN a
  ELSE (((a % 2) + (b % 2)) % 2) + 2 * Xor(a \div 2, b \div 2)

\* The ids of the command frames the harness authors
CommandIds == {DOOR_CMD, LIGHTING_CMD, TURN_SIGNAL_CMD}

\* The frames passed to send on one id, in order
FramesOf(id) == SelectSeq(sent, LAMBDA m : m.id = id)

\* C6: canonical command frame.  Every frame sent on a command id has the
\* 4-byte payload [opcode, parameter, (1 << 4) | counter, checksum], with the
\* checksum the XOR-fold of 0xAA and the three bytes before it; the first
\* door "unlock all" frame is [0x02, 0xFF, 0x10, 0x47].
C6_CanonicalCommandFrame ==
  /\ \A i \in 1..Len(sent) :
       sent[i].id \in CommandIds =>
         LET d == sent[i].data
         IN  /\ Len(d) = 4
             /\ d[3] \div 16 = 1
             /\ d[4] = Xor(Xor(Xor(170, d[1]), d[2]), d[3])
  /\ \A i \in 1..Len(FramesOf(DOOR_CMD)) :
       (i = 1 /\ FramesOf(DOOR_CMD)[i].data[1] = UNLOCK_ALL)
          => FramesOf(DOOR_CMD)[i].data = <<2, 255, 16, 71>>

\* C7: rolling counter.  For every command id the k-th frame sent on it carries
\* the counter (k - 1) mod 16 in the low nibble of its third byte.
C7_RollingCounter ==
  \A id \in CommandIds :
    \A k \in 1..Len(FramesOf(id)) :
      LET d == FramesOf(id)[k].data
      IN  Len(d) >= 3 /\ d[3] % 16 = (k - 1) % 16

\* The frames of the current run_demo, and the first n authored steps
DemoSent == SubSeq(sent, demoStart.s + 1, Len(sent))
DemoWire == SubSeq(wire, demoStart.w + 1, Len(wire))
Authored(n) == SubSeq(DemoSteps, 1, n)

C9_HandlerTotal ==
  rres # <<>> =>
    /\ ~rres[1].raised
    /\ (rid \notin {BCM_STATUS, BCM_HEARTBEAT} => rres[1].printed = <<>>)
    /\ (rid = BCM_STATUS /\ Len(rdata) < 8 => rres[1].printed = <<>>)
    /\ (rid = BCM_HEARTBEAT /\ Len(rdata) < 6 => rres[1].printed = <<>>)
    /\ (rid = BCM_STATUS /\ Len(rdata) = 8 => Len(rres[1].printed) = 3)
    /\ (rid = BCM_HEARTBEAT /\ Len(rdata) >= 6 => Len(rres[1].printed) = 4)

\* the handler has returned on a BCM status frame one byte short
C9_Witness ==
  /\ rres # <<>> /\ rid = BCM_STATUS /\ Len(rdata) = 7
  /\ ~rres[1].raised

\* C10: at most one receive loop per transport.  Never are two receive threads
\* inside self.bus.recv at once.
C10_OneReceiveLoop == Cardinality({t \in Threads : rxpc[t] = "recv"}) <= 1

\* A step that shuts a transport down or sets self.bus to None
Releases == shutdowns' # shutdowns \/ (bus # None /\ bus' = None)

\* A step in which thread t evaluates self.bus.recv on a transport that was
\* shut down or released
PollsReleased(t) ==
  /\ rxpc[t] = "recv" /\ rxpc'[t] # "recv"
  /\ (bus = None \/ busState[bus] # "open")

\* A step in which the callback is invoked after disconnect() has returned and
\* before any other call has been made
CallbackAfterReturn == prev = "disconnect" /\ cur = "none" /\ delivered' # delivered

\* The thread that makes the last callback invocation
LastCaller == delivered'[Len(delivered')][2]

\* C11 (as claimed): the transport is shut down and released only after the
\* receive loop has exited, no loop polls a released transport, and the
\* callback is not invoked after disconnect() has returned.
C11_ReleaseStep ==
  /\ Releases => \A t \in Threads : rxpc[t] \notin Live
  /\ \A t \in Threads : ~PollsReleased(t)
  /\ ~CallbackAfterReturn

C11_ReleaseAfterLoopExit == [][C11_ReleaseStep]_vars

\* The amended ordering, step by step: a release happens inside disconnect(),
\* with the stop flag cleared and the join on rx_thread returned (the thread
\* ended, or the join timed out); the joined thread polls a released transport
\* or runs the callback after the return only if its join timed out.
C11_JoinedStep ==
  /\ Releases =>
       /\ cur = "disconnect" /\ ~running
       /\ rx_thread # None => (rxpc[rx_thread] = "done" \/ joinTimedOut)
  /\ \A t \in Threads : (PollsReleased(t) /\ t = rx_thread) => joinTimedOut
  /\ (CallbackAfterReturn /\ LastCaller = rx_thread) => joinTimedOut

\* Past a join that did not time out, the joined loop has exited.
C11_JoinedLoopExited ==
  (mpc \in {"d_shut", "d_none"} /\ rx_thread # None /\ ~joinTimedOut)
     => rxpc[rx_thread] = "done"

\* C11 (amended): disconnect() shuts the transport down and releases it only
\* after it has cleared the stop flag and its join on the receive thread has
\* returned.  When the join returned because the loop had exited, that loop
\* never polls the released transport and never invokes the callback after
\* disconnect() has returned; only a loop whose join timed out does.
C11_ReleaseAfterJoin == [](C11_JoinedLoopExited) /\ [][C11_JoinedStep]_vars

\* disconnect() has returned after a join that found the loop ended: the loop
\* had delivered a frame, and its transport was shut down once and released
C11_Witness ==
  /\ prev = "disconnect" /\ cur = "none"
  /\ rx_thread # None /\ ~joinTimedOut /\ rxpc[rx_thread] = "done"
  /\ bus = None /\ \E b \in Buses : shutdowns[b] = 1
  /\ \E i \in 1..Len(delivered) : delivered[i][2] = rx_thread

====
